---- MODULE Spec2Model ----
(***************************************************************************)
(* Model of the two hipBLAS client test functions                          *)
(*   testing_her2k         (clients/include/testing_her2k.hpp)             *)
(*   testing_sbmv_batched  (clients/include/testing_sbmv_batched.hpp)      *)
(* One behaviour is one call of one of the two functions.  The arguments   *)
(* are chosen in Init; every action is one block of the function's body,   *)
(* in program order (pc).  The outcomes of the external library (device    *)
(* allocation, hipMemcpy, the GPU routine's status) are inputs chosen with *)
(* \E.  History variables record what the call has done so far.            *)
(***************************************************************************)
EXTENDS Integers, FiniteSets, Sequences, TLC

\* ------------------------------------------------------------------ bounds
MaxDim == 2
MaxInc == 2
MaxBatch == 2

VARIABLES
    fn,         \* which test function this call is
    argus,      \* the Arguments record the function is called with
    pc,         \* position in the function body
    ret,        \* returned status, "none" while running
    status,     \* status returned by the GPU routine, "none" before the call
    creates,    \* number of hipblasCreate calls
    destroys,   \* number of hipblasDestroy calls
    gpuCalls,   \* number of calls of hipblasHer2k / hipblasSbmvBatched
    usedDead,   \* the handle was passed to the GPU routine while not live
    allocated,  \* names of the host and device buffers allocated so far
    written,    \* buffer -> set of indices written by hipblas_init
    addressed,  \* indices of B the GPU routine and the oracle address (her2k)
    copies,     \* transfers performed: "h2d", "ptrs", "d2h"
    failed,     \* transfers that returned an error
    oracleCalls,\* number of CPU reference calls
    compares,   \* number of unit_check_general calls
    compared,   \* set of <<batch item, index>> read by unit_check_general
    b           \* loop counter of the batch loop at line 89 (sbmv_batched)

vars == << fn, argus, pc, ret, status, creates, destroys, gpuCalls, usedDead,
           allocated, written, addressed, copies, failed, oracleCalls,
           compares, compared, b >>

\* ------------------------------------------------------- argument domains
Dims == (0 - 1) .. MaxDim
Incs == (0 - MaxInc) .. MaxInc
Batches == (0 - 1) .. MaxBatch

hipblasOperation_t == {"HIPBLAS_OP_N", "HIPBLAS_OP_T", "HIPBLAS_OP_C"}

hipblasStatus_t ==
    {"HIPBLAS_STATUS_SUCCESS", "HIPBLAS_STATUS_INVALID_VALUE",
     "HIPBLAS_STATUS_ALLOC_FAILED", "HIPBLAS_STATUS_MAPPING_ERROR",
     "HIPBLAS_STATUS_EXECUTION_FAILED"}

hipError_t == {"hipSuccess", "hipErrorInvalidValue"}

\* the locals read from argus at the top of both functions
M == argus.M
N == argus.N
K == argus.K
lda == argus.lda
ldb == argus.ldb
ldc == argus.ldc
incx == argus.incx
incy == argus.incy
batch_count == argus.batch_count
transA == argus.transA
unit_check == argus.unit_check

\* --------------------------------------------------- helpers (pure)
\* hipblas_init<T>(A, M, N, lda): writes A[i + j * lda], i < M, j < N
hipblas_init(rows, cols, ld) ==
    { i + j * ld : i \in 0 .. rows - 1, j \in 0 .. cols - 1 }

\* unit_check_general<T>(M, N, lda, hCPU, hGPU): reads index i + j * lda
unit_check_general(rows, cols, ld) ==
    { i + j * ld : i \in 0 .. rows - 1, j \in 0 .. cols - 1 }

\* batched overload: the same indices in every batch item
unit_check_general_batched(rows, cols, batches, ld) ==
    { << bi, x >> : bi \in 0 .. batches - 1, x \in unit_check_general(rows, cols, ld) }

\* elements of an operand of her2k the BLAS routine addresses: the operand is
\* N x K for no-transpose and K x N otherwise, stored with leading dimension ld
her2k_operand(ld) ==
    IF transA = "HIPBLAS_OP_N"
    THEN { i + j * ld : i \in 0 .. N - 1, j \in 0 .. K - 1 }
    ELSE { i + j * ld : i \in 0 .. K - 1, j \in 0 .. N - 1 }

\* device_vector / device_batch_vector: a request of n elements; a negative n
\* converts to a size_t near 2^64 and hipMalloc fails, otherwise it may fail
device_alloc(n) == IF n < 0 THEN {FALSE} ELSE BOOLEAN

\* an access outside [0, size) of a buffer
OutOfBounds(idxs, size) == \E x \in idxs : x < 0 \/ x >= size

NoWrites == [ buf \in {"A", "B", "C", "x", "y"} |-> {} ]

\* ------------------------------------------------------------------- Init
Init ==
    /\ fn \in {"testing_her2k", "testing_sbmv_batched"}
    /\ \/ /\ fn = "testing_her2k"
          /\ argus \in [ M : {0}, N : Dims, K : Dims, lda : Dims, ldb : Dims,
                         ldc : Dims, incx : {0}, incy : {0}, batch_count : {0},
                         transA : hipblasOperation_t, unit_check : BOOLEAN ]
       \/ /\ fn = "testing_sbmv_batched"
          /\ argus \in [ M : Dims, N : {0}, K : Dims, lda : Dims, ldb : {0},
                         ldc : {0}, incx : Incs, incy : Incs,
                         batch_count : Batches,
                         transA : {"HIPBLAS_OP_N"}, unit_check : BOOLEAN ]
    /\ pc = "gate"
    /\ ret = "none"
    /\ status = "none"
    /\ creates = 0
    /\ destroys = 0
    /\ gpuCalls = 0
    /\ usedDead = FALSE
    /\ allocated = {}
    /\ written = NoWrites
    /\ addressed = {}
    /\ copies = {}
    /\ failed = {}
    /\ oracleCalls = 0
    /\ compares = 0
    /\ compared = {}
    /\ b = 0

\* ============================================================ testing_her2k
\* the sanity check of line 38-39 with the ldc test forgotten
her2k_invalid_no_ldc ==
    \/ N < 0
    \/ K < 0
    \/ (transA = "HIPBLAS_OP_N" /\ (lda < N \/ ldb < N))
    \/ (transA # "HIPBLAS_OP_N" /\ (lda < K \/ ldb < K))

\* line 38-39: the argument sanity check
her2k_invalid ==
    \/ N < 0
    \/ K < 0
    \/ ldc < N
    \/ (transA = "HIPBLAS_OP_N" /\ (lda < N \/ ldb < N))
    \/ (transA # "HIPBLAS_OP_N" /\ (lda < K \/ ldb < K))

K1 == IF transA = "HIPBLAS_OP_N" THEN K ELSE N
her2k_A_size == lda * K1
her2k_B_size == lda * K1
her2k_C_size == ldc * N

\* lines 38-42
her2k_gate ==
    /\ fn = "testing_her2k"
    /\ pc = "gate"
    /\ IF her2k_invalid
       THEN /\ ret' = "HIPBLAS_STATUS_INVALID_VALUE"
            /\ pc' = "done"
       ELSE /\ ret' = ret
            /\ pc' = "alloc"
    /\ UNCHANGED << fn, argus, status, creates, destroys, gpuCalls, usedDead,
                    allocated, written, addressed, copies, failed,
                    oracleCalls, compares, compared, b >>

\* lines 44-57: host_vector hA, hB, hC, hC2 and device_vector dA, dB, dC;
\* the device pointers are not checked
her2k_alloc ==
    /\ fn = "testing_her2k"
    /\ pc = "alloc"
    /\ allocated' = allocated \cup {"hA", "hB", "hC", "hC2", "dA", "dB", "dC"}
    /\ pc' = "create"
    /\ UNCHANGED << fn, argus, ret, status, creates, destroys, gpuCalls,
                    usedDead, written, addressed, copies, failed,
                    oracleCalls, compares, compared, b >>

\* lines 66-67
her2k_create ==
    /\ fn = "testing_her2k"
    /\ pc = "create"
    /\ creates' = creates + 1
    /\ pc' = "init"
    /\ UNCHANGED << fn, argus, ret, status, destroys, gpuCalls, usedDead,
                    allocated, written, addressed, copies, failed,
                    oracleCalls, compares, compared, b >>

\* lines 70-73: hipblas_init of hA, hB, hC.  A write outside a host_vector is
\* undefined behaviour: the call either goes on or the process dies.
her2k_init ==
    /\ fn = "testing_her2k"
    /\ pc = "init"
    /\ written' = [ written EXCEPT !["A"] = hipblas_init(N, K1, lda),
                                   !["B"] = hipblas_init(N, K1, ldb),
                                   !["C"] = hipblas_init(N, N, ldc) ]
    /\ \E dies \in IF \/ OutOfBounds(hipblas_init(N, K1, lda), her2k_A_size)
                      \/ OutOfBounds(hipblas_init(N, K1, ldb), her2k_B_size)
                      \/ OutOfBounds(hipblas_init(N, N, ldc), her2k_C_size)
                   THEN BOOLEAN ELSE {FALSE} :
          pc' = IF dies THEN "crashed" ELSE "h2d"
    /\ UNCHANGED << fn, argus, ret, status, creates, destroys, gpuCalls,
                    usedDead, allocated, addressed, copies, failed,
                    oracleCalls, compares, compared, b >>

\* lines 79-81: three hipMemcpy host-to-device, return values discarded
her2k_copy_in ==
    /\ fn = "testing_her2k"
    /\ pc = "h2d"
    /\ copies' = copies \cup {"h2d"}
    /\ \E err_A \in hipError_t, err_B \in hipError_t, err_C \in hipError_t :
          failed' = IF err_A # "hipSuccess" \/ err_B # "hipSuccess"
                       \/ err_C # "hipSuccess"
                    THEN failed \cup {"h2d"} ELSE failed
    /\ pc' = "gpu"
    /\ UNCHANGED << fn, argus, ret, status, creates, destroys, gpuCalls,
                    usedDead, allocated, written, addressed, oracleCalls,
                    compares, compared, b >>

\* lines 91-102: the single call of hipblasHer2k and its status check
her2k_gpu ==
    /\ fn = "testing_her2k"
    /\ pc = "gpu"
    /\ gpuCalls' = gpuCalls + 1
    /\ usedDead' = (usedDead \/ creates - destroys # 1)
    /\ addressed' = her2k_operand(ldb)
    /\ \E s \in hipblasStatus_t :
          /\ status' = s
          /\ IF s # "HIPBLAS_STATUS_SUCCESS"
             THEN /\ destroys' = destroys + 1
                  /\ ret' = s
                  /\ pc' = "done"
             ELSE /\ destroys' = destroys
                  /\ ret' = ret
                  /\ pc' = "d2h"
    /\ UNCHANGED << fn, argus, creates, allocated, written, copies, failed,
                    oracleCalls, compares, compared, b >>

\* line 105: hipMemcpy device-to-host, return value discarded
her2k_copy_out ==
    /\ fn = "testing_her2k"
    /\ pc = "d2h"
    /\ copies' = copies \cup {"d2h"}
    /\ \E err \in hipError_t :
          failed' = IF err # "hipSuccess" THEN failed \cup {"d2h"} ELSE failed
    /\ pc' = "check"
    /\ UNCHANGED << fn, argus, ret, status, creates, destroys, gpuCalls,
                    usedDead, allocated, written, addressed, oracleCalls,
                    compares, compared, b >>

\* lines 107-120 with the comparison sized by ldc instead of N
her2k_unit_check_by_ldc ==
    /\ fn = "testing_her2k"
    /\ pc = "check"
    /\ IF unit_check
       THEN /\ oracleCalls' = oracleCalls + 1
            /\ compares' = compares + 1
            /\ compared' = { << 0, x >> : x \in unit_check_general(ldc, ldc, ldc) }
       ELSE UNCHANGED << oracleCalls, compares, compared >>
    /\ pc' = "finish"
    /\ UNCHANGED << fn, argus, ret, status, creates, destroys, gpuCalls,
                    usedDead, allocated, written, addressed, copies, failed, b >>

\* lines 107-120: cblas_her2k and unit_check_general(N, N, ldc, hC2, hC)
her2k_unit_check ==
    /\ fn = "testing_her2k"
    /\ pc = "check"
    /\ IF unit_check
       THEN /\ oracleCalls' = oracleCalls + 1
            /\ compares' = compares + 1
            /\ compared' = { << 0, x >> : x \in unit_check_general(N, N, ldc) }
       ELSE UNCHANGED << oracleCalls, compares, compared >>
    /\ pc' = "finish"
    /\ UNCHANGED << fn, argus, ret, status, creates, destroys, gpuCalls,
                    usedDead, allocated, written, addressed, copies, failed, b >>

\* lines 122-123
her2k_finish ==
    /\ fn = "testing_her2k"
    /\ pc = "finish"
    /\ destroys' = destroys + 1
    /\ ret' = "HIPBLAS_STATUS_SUCCESS"
    /\ pc' = "done"
    /\ UNCHANGED << fn, argus, status, creates, gpuCalls, usedDead, allocated,
                    written, addressed, copies, failed, oracleCalls, compares,
                    compared, b >>

testing_her2k ==
    \/ her2k_gate
    \/ her2k_alloc
    \/ her2k_create
    \/ her2k_init
    \/ her2k_copy_in
    \/ her2k_gpu
    \/ her2k_copy_out
    \/ her2k_unit_check
    \/ her2k_finish

\* ===================================================== testing_sbmv_batched
\* lines 32-34
sbmv_A_size == lda * M
sbmv_X_size == M * incx
sbmv_Y_size == M * incy

\* the sanity check of line 43 with the K test forgotten
sbmv_invalid_no_K ==
    \/ M < 0
    \/ lda < K + 1
    \/ incx = 0
    \/ incy = 0
    \/ batch_count < 0

\* line 43: the argument sanity check
sbmv_invalid ==
    \/ M < 0
    \/ K < 0
    \/ lda < K + 1
    \/ incx = 0
    \/ incy = 0
    \/ batch_count < 0

\* lines 43-50 without the batch_count == 0 branch
sbmv_gate_no_zero_batch ==
    /\ fn = "testing_sbmv_batched"
    /\ pc = "gate"
    /\ IF sbmv_invalid
       THEN /\ ret' = "HIPBLAS_STATUS_INVALID_VALUE"
            /\ pc' = "done"
       ELSE /\ ret' = ret
            /\ pc' = "create"
    /\ UNCHANGED << fn, argus, status, creates, destroys, gpuCalls, usedDead,
                    allocated, written, addressed, copies, failed,
                    oracleCalls, compares, compared, b >>

\* lines 43-50
sbmv_gate ==
    /\ fn = "testing_sbmv_batched"
    /\ pc = "gate"
    /\ IF sbmv_invalid
       THEN /\ ret' = "HIPBLAS_STATUS_INVALID_VALUE"
            /\ pc' = "done"
       ELSE IF batch_count = 0
       THEN /\ ret' = "HIPBLAS_STATUS_SUCCESS"
            /\ pc' = "done"
       ELSE /\ ret' = ret
            /\ pc' = "create"
    /\ UNCHANGED << fn, argus, status, creates, destroys, gpuCalls, usedDead,
                    allocated, written, addressed, copies, failed,
                    oracleCalls, compares, compared, b >>

\* lines 52-53
sbmv_create ==
    /\ fn = "testing_sbmv_batched"
    /\ pc = "create"
    /\ creates' = creates + 1
    /\ pc' = "alloc"
    /\ UNCHANGED << fn, argus, ret, status, destroys, gpuCalls, usedDead,
                    allocated, written, addressed, copies, failed,
                    oracleCalls, compares, compared, b >>

\* lines 63-84: the (empty) host_vector arrays, the device batch vectors, the
\* device pointer arrays and the allocation check
sbmv_alloc ==
    /\ fn = "testing_sbmv_batched"
    /\ pc = "alloc"
    /\ allocated' = allocated \cup {"bA_array", "bx_array", "by_array",
                                    "dA_array", "dx_array", "dy_array"}
    /\ \E dA_array \in device_alloc(batch_count),
          dx_array \in device_alloc(batch_count),
          dy_array \in device_alloc(batch_count),
          bA_last \in device_alloc(sbmv_A_size),
          bx_last \in device_alloc(sbmv_X_size),
          by_last \in device_alloc(sbmv_Y_size) :
          IF \/ ~dA_array \/ ~dx_array \/ ~dy_array
             \/ (~bA_last /\ sbmv_A_size # 0)
             \/ (~bx_last /\ sbmv_X_size # 0)
             \/ (~by_last /\ sbmv_Y_size # 0)
          THEN /\ destroys' = destroys + 1
               /\ ret' = "HIPBLAS_STATUS_ALLOC_FAILED"
               /\ pc' = "done"
          ELSE /\ destroys' = destroys
               /\ ret' = ret
               /\ pc' = "init"
    /\ b' = 0
    /\ UNCHANGED << fn, argus, status, creates, gpuCalls, usedDead, written,
                    addressed, copies, failed, oracleCalls, compares, compared >>

\* lines 89-112: one iteration of the batch loop.  host_vector allocation,
\* hipblas_init of the three buffers, three checked hipMemcpy.  A write
\* outside a host_vector is undefined behaviour: the call goes on or dies.
sbmv_init_batch ==
    /\ fn = "testing_sbmv_batched"
    /\ pc = "init"
    /\ b < batch_count
    /\ allocated' = allocated \cup {"hA_array", "hx_array", "hy_array",
                                    "hres_array"}
    /\ written' = [ written EXCEPT
                      !["A"] = @ \cup hipblas_init(M, M, lda),
                      !["x"] = @ \cup hipblas_init(1, M, incx),
                      !["y"] = @ \cup hipblas_init(1, M, incy) ]
    /\ \E dies \in IF \/ OutOfBounds(hipblas_init(M, M, lda), sbmv_A_size)
                      \/ OutOfBounds(hipblas_init(1, M, incx), sbmv_X_size)
                      \/ OutOfBounds(hipblas_init(1, M, incy), sbmv_Y_size)
                   THEN BOOLEAN ELSE {FALSE} :
          IF dies
          THEN /\ pc' = "crashed"
               /\ UNCHANGED << copies, failed, destroys, ret, b >>
          ELSE /\ copies' = copies \cup {"h2d"}
               /\ \E err_A \in hipError_t, err_x \in hipError_t,
                     err_y \in hipError_t :
                     IF err_A # "hipSuccess" \/ err_x # "hipSuccess"
                        \/ err_y # "hipSuccess"
                     THEN /\ failed' = failed \cup {"h2d"}
                          /\ destroys' = destroys + 1
                          /\ ret' = "HIPBLAS_STATUS_MAPPING_ERROR"
                          /\ pc' = "done"
                          /\ b' = b
                     ELSE /\ failed' = failed
                          /\ destroys' = destroys
                          /\ ret' = ret
                          /\ b' = b + 1
                          /\ pc' = IF b + 1 < batch_count THEN "init"
                                   ELSE "ptrs"
    /\ UNCHANGED << fn, argus, status, creates, gpuCalls, usedDead, addressed,
                    oracleCalls, compares, compared >>

\* lines 114-121 with the hipblasDestroy of line 119 forgotten
sbmv_copy_ptrs_leak ==
    /\ fn = "testing_sbmv_batched"
    /\ pc = "ptrs"
    /\ copies' = copies \cup {"ptrs"}
    /\ \E err_A \in hipError_t, err_x \in hipError_t, err_y \in hipError_t :
          IF err_A # "hipSuccess" \/ err_x # "hipSuccess"
             \/ err_y # "hipSuccess"
          THEN /\ failed' = failed \cup {"ptrs"}
               /\ ret' = "HIPBLAS_STATUS_MAPPING_ERROR"
               /\ pc' = "done"
          ELSE /\ failed' = failed
               /\ ret' = ret
               /\ pc' = "gpu"
    /\ UNCHANGED << fn, argus, status, creates, destroys, gpuCalls, usedDead,
                    allocated, written, addressed, oracleCalls, compares,
                    compared, b >>

\* lines 114-121: the three pointer arrays are copied to the device, checked
sbmv_copy_ptrs ==
    /\ fn = "testing_sbmv_batched"
    /\ pc = "ptrs"
    /\ copies' = copies \cup {"ptrs"}
    /\ \E err_A \in hipError_t, err_x \in hipError_t, err_y \in hipError_t :
          IF err_A # "hipSuccess" \/ err_x # "hipSuccess"
             \/ err_y # "hipSuccess"
          THEN /\ failed' = failed \cup {"ptrs"}
               /\ destroys' = destroys + 1
               /\ ret' = "HIPBLAS_STATUS_MAPPING_ERROR"
               /\ pc' = "done"
          ELSE /\ failed' = failed
               /\ destroys' = destroys
               /\ ret' = ret
               /\ pc' = "gpu"
    /\ UNCHANGED << fn, argus, status, creates, gpuCalls, usedDead, allocated,
                    written, addressed, oracleCalls, compares, compared, b >>

\* lines 126-147 with the status check forgotten: the call goes on to the copy
sbmv_gpu_unchecked ==
    /\ fn = "testing_sbmv_batched"
    /\ pc = "gpu"
    /\ gpuCalls' = gpuCalls + 1
    /\ usedDead' = (usedDead \/ creates - destroys # 1)
    /\ \E s \in hipblasStatus_t : status' = s
    /\ pc' = "d2h"
    /\ UNCHANGED << fn, argus, ret, creates, destroys, allocated, written,
                    addressed, copies, failed, oracleCalls, compares,
                    compared, b >>

\* lines 126-147: the single call of hipblasSbmvBatched and its status check
sbmv_gpu ==
    /\ fn = "testing_sbmv_batched"
    /\ pc = "gpu"
    /\ gpuCalls' = gpuCalls + 1
    /\ usedDead' = (usedDead \/ creates - destroys # 1)
    /\ \E s \in hipblasStatus_t :
          /\ status' = s
          /\ IF s # "HIPBLAS_STATUS_SUCCESS"
             THEN /\ destroys' = destroys + 1
                  /\ ret' = s
                  /\ pc' = "done"
             ELSE /\ destroys' = destroys
                  /\ ret' = ret
                  /\ pc' = "d2h"
    /\ UNCHANGED << fn, argus, creates, allocated, written, addressed, copies,
                    failed, oracleCalls, compares, compared, b >>

\* lines 150-153: the results are copied back, return values discarded
sbmv_copy_out ==
    /\ fn = "testing_sbmv_batched"
    /\ pc = "d2h"
    /\ copies' = copies \cup {"d2h"}
    /\ \E errs \in [ 0 .. batch_count - 1 -> hipError_t ] :
          failed' = IF \E bi \in 0 .. batch_count - 1 : errs[bi] # "hipSuccess"
                    THEN failed \cup {"d2h"} ELSE failed
    /\ pc' = "check"
    /\ UNCHANGED << fn, argus, ret, status, creates, destroys, gpuCalls,
                    usedDead, allocated, written, addressed, oracleCalls,
                    compares, compared, b >>

\* lines 155-173: cblas_sbmv per batch item, then
\* unit_check_general(1, M, batch_count, incx, hy_array, hres_array).  A read
\* outside a host_vector is undefined behaviour: the call goes on or dies.
sbmv_unit_check ==
    /\ fn = "testing_sbmv_batched"
    /\ pc = "check"
    /\ IF unit_check
       THEN /\ oracleCalls' = oracleCalls + batch_count
            /\ compares' = compares + 1
            /\ compared' = unit_check_general_batched(1, M, batch_count, incx)
            /\ \E dies \in IF OutOfBounds(unit_check_general(1, M, incx),
                                          sbmv_Y_size)
                           THEN BOOLEAN ELSE {FALSE} :
                  pc' = IF dies THEN "crashed" ELSE "finish"
       ELSE /\ pc' = "finish"
            /\ UNCHANGED << oracleCalls, compares, compared >>
    /\ UNCHANGED << fn, argus, ret, status, creates, destroys, gpuCalls,
                    usedDead, allocated, written, addressed, copies, failed, b >>

\* lines 175-176
sbmv_finish ==
    /\ fn = "testing_sbmv_batched"
    /\ pc = "finish"
    /\ destroys' = destroys + 1
    /\ ret' = "HIPBLAS_STATUS_SUCCESS"
    /\ pc' = "done"
    /\ UNCHANGED << fn, argus, status, creates, gpuCalls, usedDead, allocated,
                    written, addressed, copies, failed, oracleCalls, compares,
                    compared, b >>

testing_sbmv_batched ==
    \/ sbmv_gate
    \/ sbmv_create
    \/ sbmv_alloc
    \/ sbmv_init_batch
    \/ sbmv_copy_ptrs
    \/ sbmv_gpu
    \/ sbmv_copy_out
    \/ sbmv_unit_check
    \/ sbmv_finish

\* ------------------------------------------------------------------- Spec
Next == testing_her2k \/ testing_sbmv_batched

Spec == Init /\ [][Next]_vars

TypeOK ==
    /\ fn \in {"testing_her2k", "testing_sbmv_batched"}
    /\ pc \in {"gate", "alloc", "create", "init", "h2d", "ptrs", "gpu", "d2h",
               "check", "finish", "done", "crashed"}
    /\ ret \in hipblasStatus_t \cup {"none"}
    /\ status \in hipblasStatus_t \cup {"none"}
    /\ creates \in 0 .. 1
    /\ destroys \in 0 .. 1
    /\ gpuCalls \in 0 .. 1
    /\ usedDead \in BOOLEAN
    /\ copies \subseteq {"h2d", "ptrs", "d2h"}
    /\ failed \subseteq copies
    /\ (pc = "done") = (ret # "none")

\* ================================================================== claims
\* the conditions under which the claims say the call is rejected
C1_Rejected ==
    \/ /\ fn = "testing_her2k"
       /\ \/ N < 0
          \/ K < 0
          \/ ldc < N
          \/ (transA = "HIPBLAS_OP_N" /\ (lda < N \/ ldb < N))
          \/ (transA # "HIPBLAS_OP_N" /\ (lda < K \/ ldb < K))
    \/ /\ fn = "testing_sbmv_batched"
       /\ \/ M < 0
          \/ K < 0
          \/ lda < K + 1
          \/ incx = 0
          \/ incy = 0
          \/ batch_count < 0

\* C1: whenever the arguments are invalid (her2k: N < 0, K < 0, ldc < N, or
\* lda/ldb below N resp. K; sbmv_batched: M < 0, K < 0, lda < K + 1, a zero
\* increment or batch_count < 0) the call never leaves the gate except to
\* return invalid-value, and no buffer is allocated, no handle is created
\* and the GPU routine is not invoked.
C1_ValidationGate ==
    C1_Rejected =>
        /\ pc \in {"gate", "done"}
        /\ (pc = "done" => ret = "HIPBLAS_STATUS_INVALID_VALUE")
        /\ allocated = {}
        /\ creates = 0
        /\ gpuCalls = 0
        /\ copies = {}

C1_Witness ==
    /\ fn = "testing_her2k"
    /\ N >= 0 /\ K >= 0 /\ ldc >= N /\ lda >= N /\ ldb < N
    /\ transA = "HIPBLAS_OP_N"
    /\ pc = "done"
    /\ ret = "HIPBLAS_STATUS_INVALID_VALUE"

\* C2 (as amended): a call of testing_sbmv_batched with batch_count = 0 never
\* creates a handle, allocates or touches a buffer or invokes the GPU
\* routine; it returns success when the other arguments pass the sanity
\* check and invalid-value when they do not.
C2_ZeroBatch ==
    (fn = "testing_sbmv_batched" /\ batch_count = 0) =>
        /\ pc \in {"gate", "done"}
        /\ creates = 0
        /\ allocated = {}
        /\ written = NoWrites
        /\ copies = {}
        /\ gpuCalls = 0
        /\ compared = {}
        /\ (pc = "done" =>
              ret = IF M < 0 \/ K < 0 \/ lda < K + 1 \/ incx = 0 \/ incy = 0
                    THEN "HIPBLAS_STATUS_INVALID_VALUE"
                    ELSE "HIPBLAS_STATUS_SUCCESS")

C2_Witness ==
    /\ fn = "testing_sbmv_batched"
    /\ batch_count = 0
    /\ pc = "done"
    /\ ret = "HIPBLAS_STATUS_SUCCESS"

\* C2 (as stated): with batch_count = 0 the call returns success whatever
\* the other arguments are, without handle, buffer or GPU call.
C2_Original ==
    (fn = "testing_sbmv_batched" /\ batch_count = 0 /\ pc = "done") =>
        /\ ret = "HIPBLAS_STATUS_SUCCESS"
        /\ creates = 0
        /\ allocated = {}
        /\ gpuCalls = 0

\* the zero-size calls of C3: N = 0 resp. M = 0, everything else valid
C3_ZeroSize ==
    \/ /\ fn = "testing_her2k"
       /\ N = 0 /\ K >= 0 /\ ldc >= 0
       /\ (transA = "HIPBLAS_OP_N" => lda >= 0 /\ ldb >= 0)
       /\ (transA # "HIPBLAS_OP_N" => lda >= K /\ ldb >= K)
    \/ /\ fn = "testing_sbmv_batched"
       /\ M = 0 /\ K >= 0 /\ lda >= K + 1 /\ incx # 0 /\ incy # 0
       /\ batch_count > 0

C4_NegativeK ==
    K < 0 =>
        /\ pc \in {"gate", "done"}
        /\ creates = 0
        /\ destroys = 0
        /\ (pc = "done" => ret = "HIPBLAS_STATUS_INVALID_VALUE")

C4_Witness ==
    /\ fn = "testing_sbmv_batched"
    /\ K < 0 /\ M >= 0 /\ lda >= 0 /\ incx # 0 /\ incy # 0 /\ batch_count > 0
    /\ pc = "done"
    /\ ret = "HIPBLAS_STATUS_INVALID_VALUE"
    /\ destroys = 0

\* C4 (as stated): a call with K < 0 returns invalid-value with the handle
\* destroyed exactly once.
C4_Original ==
    (K < 0 /\ pc = "done") =>
        /\ ret = "HIPBLAS_STATUS_INVALID_VALUE"
        /\ destroys = 1

\* C5: once the GPU routine has returned a status other than success, the
\* call has returned exactly that status, has destroyed the handle once, has
\* invoked the GPU routine once, and has done none of the later steps (copy
\* of the result, oracle, comparison).
C5_GpuStatusPropagates ==
    status \notin {"none", "HIPBLAS_STATUS_SUCCESS"} =>
        /\ pc = "done"
        /\ ret = status
        /\ creates = 1
        /\ destroys = 1
        /\ gpuCalls = 1
        /\ "d2h" \notin copies
        /\ oracleCalls = 0
        /\ compares = 0
        /\ compared = {}

C5_Witness ==
    /\ fn = "testing_sbmv_batched"
    /\ status = "HIPBLAS_STATUS_EXECUTION_FAILED"
    /\ ret = "HIPBLAS_STATUS_EXECUTION_FAILED"
    /\ destroys = 1

\* C6: at most one handle is created, it is destroyed at most once and only
\* after it was created, every return leaves as many destroys as creates,
\* and the GPU routine only ever receives a live handle.
C6_HandleLifecycle ==
    /\ creates <= 1
    /\ destroys <= creates
    /\ (pc = "done" => destroys = creates)
    /\ ~usedDead
    /\ (gpuCalls > 0 => creates = 1)

C6_Witness ==
    /\ fn = "testing_sbmv_batched"
    /\ pc = "done"
    /\ ret = "HIPBLAS_STATUS_MAPPING_ERROR"
    /\ "ptrs" \in failed
    /\ creates = 1
    /\ destroys = 1

\* C7: a call in which a transfer has failed returns mapping-error with the
\* handle destroyed; a failed input copy means the GPU routine is never
\* invoked, a failed result copy means nothing is compared.
C7_TransferFailure ==
    failed # {} =>
        /\ pc # "finish"
        /\ (pc = "done" =>
              /\ ret = "HIPBLAS_STATUS_MAPPING_ERROR"
              /\ destroys = 1)
        /\ (failed \cap {"h2d", "ptrs"} # {} => gpuCalls = 0)
        /\ ("d2h" \in failed => compares = 0)

\* C8: in testing_her2k every index written by initialization, and every
\* element of B addressed through ldb, lies inside its buffer.
C8_Her2kInBounds ==
    fn = "testing_her2k" =>
        /\ ~OutOfBounds(written["A"], her2k_A_size)
        /\ ~OutOfBounds(written["B"], her2k_B_size)
        /\ ~OutOfBounds(written["C"], her2k_C_size)
        /\ ~OutOfBounds(addressed, her2k_B_size)

\* C9: in testing_sbmv_batched, past the gate with batch_count > 0, the three
\* buffer sizes are non-negative and every index written by initialization
\* lies inside its buffer.
C9_SbmvInBounds ==
    (fn = "testing_sbmv_batched" /\ creates = 1) =>
        /\ sbmv_A_size >= 0
        /\ sbmv_X_size >= 0
        /\ sbmv_Y_size >= 0
        /\ ~OutOfBounds(written["A"], sbmv_A_size)
        /\ ~OutOfBounds(written["x"], sbmv_X_size)
        /\ ~OutOfBounds(written["y"], sbmv_Y_size)

\* C10: in testing_sbmv_batched the comparison reads, in every batch item,
\* exactly the indices j * incy (j < M) of y, all of them inside Y_size.
C10_ComparesY ==
    (fn = "testing_sbmv_batched" /\ compares = 1) =>
        /\ compared = { << bi, j * incy >> :
                           bi \in 0 .. batch_count - 1, j \in 0 .. M - 1 }
        /\ \A e \in compared : e[2] >= 0 /\ e[2] < sbmv_Y_size

====
